---- MODULE Spec2Model ----
(***************************************************************************)
(* Technical-analysis engine of src/src/pages/Investments.tsx.             *)
(*                                                                         *)
(* JavaScript numbers are modelled as decimal floating-point records:      *)
(*   [k |-> "fin", m |-> m, e |-> e]  the finite value m * 10^e, where m   *)
(*        is 0 (with e = 0) or has exactly 8 digits; the results of +, -,  *)
(*        *, / and sqrt are truncated toward zero to 8 digits,             *)
(*   [k |-> "inf", m |-> 1, e |-> 0]   +Infinity (m |-> -1: -Infinity),    *)
(*   [k |-> "nan", m |-> 0, e |-> 0]   NaN.                                *)
(* Division by zero, Infinity - Infinity, 0 * Infinity and comparisons     *)
(* with NaN follow IEEE 754 as JavaScript implements it.  The exponent is  *)
(* unbounded (no overflow to Infinity) and signed zero is not modelled.    *)
(***************************************************************************)
EXTENDS Integers, Sequences, FiniteSets, TLC

\* ------------------------------------------------------------------------
\* Numbers
\* ------------------------------------------------------------------------
Half == 10^4
Unit == 10^7
Top == 10^8

Fin(m, e) == [k |-> "fin", m |-> m, e |-> e]
NaN == [k |-> "nan", m |-> 0, e |-> 0]
PosInf == [k |-> "inf", m |-> 1, e |-> 0]
NegInf == [k |-> "inf", m |-> -1, e |-> 0]
Zero == Fin(0, 0)

Abs(n) == IF n < 0 THEN -n ELSE n
Sgn(n) == IF n < 0 THEN -1 ELSE IF n > 0 THEN 1 ELSE 0

\* number of decimal digits of n, 0 < n < 2^31
NumDigits(n) ==
    IF n >= 10^7
    THEN IF n < 10^8 THEN 8 ELSE IF n < 10^9 THEN 9 ELSE 10
    ELSE IF n >= 10^4
         THEN IF n < 10^5 THEN 5 ELSE IF n < 10^6 THEN 6 ELSE 7
         ELSE IF n < 10 THEN 1 ELSE IF n < 100 THEN 2 ELSE IF n < 1000 THEN 3 ELSE 4

\* the number m * 10^e with its mantissa brought to 8 digits
Normalise(m, e) ==
    IF m = 0 THEN Zero
    ELSE LET d == NumDigits(Abs(m))
         IN  IF d > 8 THEN Fin(Sgn(m) * (Abs(m) \div 10^(d - 8)), e + (d - 8))
             ELSE Fin(m * 10^(8 - d), e - (8 - d))

\* the integer n, and the decimal literal n * 10^e
Num(n) == Normalise(n, 0)
Dec(n, e) == Normalise(n, e)

IsNaN(a) == a.k = "nan"
IsFinite(a) == a.k = "fin"
Infinity(s) == IF s < 0 THEN NegInf ELSE PosInf

\* floor(a * b / 10^7) or floor(a * b / 10^8) for 8-digit a, b, whichever
\* has 8 digits, with the power of ten that was divided out
MulMant(a, b) ==
    LET a1 == a \div Half
        a0 == a % Half
        b1 == b \div Half
        b0 == b % Half
        mid == a1 * b0 + a0 * b1 + (a0 * b0) \div Half
        hi == a1 * b1 + mid \div Half
    IN  IF hi >= Unit THEN <<hi, 8>>
        ELSE <<hi * 10 + (mid % Half) \div 1000, 7>>

RECURSIVE QuotDigits(_, _, _)
\* the next n digits of r / b, for 0 <= r < b
QuotDigits(r, b, n) ==
    IF n = 0 THEN 0
    ELSE LET t == r * 10
         IN  (t \div b) * 10^(n - 1) + QuotDigits(t % b, b, n - 1)

\* floor(a * 10^8 / b) for 8-digit a, b
DivMant(a, b) == (a \div b) * Top + QuotDigits(a % b, b, 8)

Neg(a) == IF a.k = "nan" THEN NaN ELSE [k |-> a.k, m |-> -a.m, e |-> a.e]

\* the mantissa of a at exponent e >= a.e - 1
Shifted(a, e) ==
    IF e < a.e THEN a.m * 10
    ELSE IF e - a.e > 9 THEN 0
    ELSE Sgn(a.m) * (Abs(a.m) \div 10^(e - a.e))

Add(a, b) ==
    IF a.k = "fin" /\ b.k = "fin"
    THEN IF a.m = 0 THEN b
         ELSE IF b.m = 0 THEN a
         ELSE LET e == (IF a.e > b.e THEN a.e ELSE b.e) - 1
              IN  Normalise(Shifted(a, e) + Shifted(b, e), e)
    ELSE IF a.k = "nan" \/ b.k = "nan" THEN NaN
    ELSE IF a.k = "inf" /\ b.k = "inf" THEN (IF a.m = b.m THEN a ELSE NaN)
    ELSE IF a.k = "inf" THEN a ELSE b

Sub(a, b) == Add(a, Neg(b))

Mul(a, b) ==
    IF a.k = "fin" /\ b.k = "fin"
    THEN IF a.m = 0 \/ b.m = 0 THEN Zero
         ELSE LET p == MulMant(Abs(a.m), Abs(b.m))
              IN  Normalise(Sgn(a.m) * Sgn(b.m) * p[1], a.e + b.e + p[2])
    ELSE IF a.k = "nan" \/ b.k = "nan" THEN NaN
    ELSE IF a.m = 0 \/ b.m = 0 THEN NaN
    ELSE Infinity(Sgn(a.m) * Sgn(b.m))

Div(a, b) ==
    IF a.k = "nan" \/ b.k = "nan" THEN NaN
    ELSE IF a.k = "inf" THEN (IF b.k = "inf" THEN NaN
                              ELSE Infinity(a.m * (IF b.m < 0 THEN -1 ELSE 1)))
    ELSE IF b.k = "inf" THEN Zero
    ELSE IF b.m = 0 THEN (IF a.m = 0 THEN NaN ELSE Infinity(a.m))
    ELSE IF a.m = 0 THEN Zero
    ELSE Normalise(Sgn(a.m) * Sgn(b.m) * DivMant(Abs(a.m), Abs(b.m)), a.e - b.e - 8)

\* a < b on finite numbers
LtFin(a, b) ==
    IF Sgn(a.m) # Sgn(b.m) THEN Sgn(a.m) < Sgn(b.m)
    ELSE IF a.m = 0 THEN FALSE
    ELSE IF a.m > 0 THEN a.e < b.e \/ (a.e = b.e /\ a.m < b.m)
    ELSE a.e > b.e \/ (a.e = b.e /\ a.m < b.m)

\* a < b, false when either side is NaN
Lt(a, b) ==
    IF a.k = "nan" \/ b.k = "nan" THEN FALSE
    ELSE IF a.k = "fin" /\ b.k = "fin" THEN LtFin(a, b)
    ELSE IF a.k = "inf" /\ b.k = "inf" THEN a.m < b.m
    ELSE IF a.k = "inf" THEN a.m < 0
    ELSE b.m > 0

Gt(a, b) == Lt(b, a)
Le(a, b) == Lt(a, b) \/ (~IsNaN(a) /\ a = b)
Ge(a, b) == Le(b, a)
\* a !== b
StrictNe(a, b) == IsNaN(a) \/ IsNaN(b) \/ a # b

MathMax(a, b) == IF IsNaN(a) \/ IsNaN(b) THEN NaN ELSE IF Lt(a, b) THEN b ELSE a
MathMin(a, b) == IF IsNaN(a) \/ IsNaN(b) THEN NaN ELSE IF Lt(b, a) THEN b ELSE a

RECURSIVE ISqrt(_, _, _)
\* largest r in lo..hi with r * r <= n  (lo * lo <= n is given)
ISqrt(n, lo, hi) ==
    IF lo >= hi THEN lo
    ELSE LET mid == (lo + hi + 1) \div 2
         IN  IF mid * mid <= n THEN ISqrt(n, mid, hi) ELSE ISqrt(n, lo, mid - 1)

\* one Newton step toward sqrt(a) from x
SqrtStep(a, x) == Div(Add(x, Div(a, x)), Num(2))

MathSqrt(a) ==
    IF a.k = "nan" THEN NaN
    ELSE IF a.k = "inf" THEN (IF a.m > 0 THEN PosInf ELSE NaN)
    ELSE IF a.m < 0 THEN NaN
    ELSE IF a.m = 0 THEN Zero
    ELSE LET odd == a.e % 2 = 1
             m2 == IF odd THEN a.m * 10 ELSE a.m
             e2 == IF odd THEN a.e - 1 ELSE a.e
             x0 == Normalise(ISqrt(m2, 0, 46340), e2 \div 2)
         IN  SqrtStep(a, SqrtStep(a, x0))

\* Math.pow(a, 2)
MathPow2(a) == Mul(a, a)

\* `second`, once `first` has been evaluated (TLC evaluates definitions on
\* demand; this keeps the evaluation of a long loop shallow).
Then(first, second) == IF first = first THEN second ELSE second

RECURSIVE SumFrom(_, _, _, _)
\* acc after `acc = acc + s[i]` has run for i = lo..hi in order: first on
\* lo..mid, then on mid+1..hi (the halves keep the evaluation shallow, the
\* additions happen left to right as reduce makes them)
SumFrom(acc, s, lo, hi) ==
    IF hi < lo THEN acc
    ELSE IF lo = hi THEN Add(acc, s[lo])
    ELSE LET mid == (lo + hi) \div 2
             left == SumFrom(acc, s, lo, mid)
         IN  Then(left, SumFrom(left, s, mid + 1, hi))

\* s.slice(lo-1, hi).reduce((a, b) => a + b, 0)
SumRange(s, lo, hi) == SumFrom(Zero, s, lo, hi)

\* ------------------------------------------------------------------------
\* Indicators.  JavaScript index i is TLA+ index i + 1.  A loop
\* `for (i = lo; i <= hi; i++) body` is an operator Loop(state, lo, hi) that
\* runs the body on lo..hi in order: first on lo..mid, then on mid+1..hi.
\* ------------------------------------------------------------------------
\* the mutant's slice stops before the element the window ends at
calculateSMAShortWindow(data, period) ==
    IF Len(data) < period THEN <<>>
    ELSE [j \in 1..(Len(data) - period + 1) |->
             Div(SumRange(data, j, j + period - 2), Num(period))]

calculateSMA(data, period) ==
    IF Len(data) < period THEN <<>>
    ELSE [j \in 1..(Len(data) - period + 1) |->
             Div(SumRange(data, j, j + period - 1), Num(period))]

RECURSIVE EmaLoop(_, _, _, _, _)
\* the loop over JavaScript i = lo-1 .. hi-1 pushing onto ema
EmaLoop(data, k, ema, lo, hi) ==
    IF hi < lo THEN ema
    ELSE IF lo = hi
    THEN Append(ema, Add(Mul(data[lo], k), Mul(ema[lo - 1], Sub(Num(1), k))))
    ELSE LET mid == (lo + hi) \div 2
             left == EmaLoop(data, k, ema, lo, mid)
         IN  Then(left, EmaLoop(data, k, left, mid + 1, hi))

\* the mutant smooths with k = 2 / period
calculateEMAWrongFactor(data, period) ==
    IF Len(data) < period THEN <<>>
    ELSE LET k == Div(Num(2), Num(period))
         IN  EmaLoop(data, k, <<data[1]>>, 2, Len(data))

calculateEMA(data, period) ==
    IF Len(data) < period THEN <<>>
    ELSE LET k == Div(Num(2), Num(period + 1))
         IN  EmaLoop(data, k, <<data[1]>>, 2, Len(data))

RECURSIVE RsiInitial(_, _, _, _)
\* <<gains, losses>> after the first loop has run for i = lo..hi
RsiInitial(prices, acc, lo, hi) ==
    IF hi < lo THEN acc
    ELSE IF lo = hi
    THEN LET change == Sub(prices[lo + 1], prices[lo])
         IN  IF Gt(change, Zero) THEN <<Add(acc[1], change), acc[2]>>
             ELSE <<acc[1], Sub(acc[2], change)>>
    ELSE LET mid == (lo + hi) \div 2
             left == RsiInitial(prices, acc, lo, mid)
         IN  Then(left, RsiInitial(prices, left, mid + 1, hi))

RECURSIVE RsiSmooth(_, _, _, _)
\* <<avgGain, avgLoss>> after the smoothing loop has run for i = lo..hi
RsiSmooth(prices, avg, lo, hi) ==
    IF hi < lo THEN avg
    ELSE IF lo = hi
    THEN LET change == Sub(prices[lo + 1], prices[lo])
             gain == IF Gt(change, Zero) THEN change ELSE Zero
             loss == IF Lt(change, Zero) THEN Neg(change) ELSE Zero
         IN  <<Div(Add(Mul(avg[1], Num(13)), gain), Num(14)),
               Div(Add(Mul(avg[2], Num(13)), loss), Num(14))>>
    ELSE LET mid == (lo + hi) \div 2
             left == RsiSmooth(prices, avg, lo, mid)
         IN  Then(left, RsiSmooth(prices, left, mid + 1, hi))

\* the mutant divides without the zero-loss guard
RsiValueUnguarded(avgGain, avgLoss) ==
    LET rs == Div(avgGain, avgLoss)
    IN  Sub(Num(100), Div(Num(100), Add(Num(1), rs)))

\* the mutant answers the neutral default when there is no loss
RsiValueNeutral(avgGain, avgLoss) ==
    IF ~StrictNe(avgLoss, Zero) THEN Num(50)
    ELSE LET rs == Div(avgGain, avgLoss)
         IN  Sub(Num(100), Div(Num(100), Add(Num(1), rs)))

RsiValue(avgGain, avgLoss) ==
    IF ~StrictNe(avgLoss, Zero) THEN Num(100)
    ELSE LET rs == Div(avgGain, avgLoss)
         IN  Sub(Num(100), Div(Num(100), Add(Num(1), rs)))

\* the mutant also answers the default for a series of exactly period + 1 prices
calculateRSIOffByOne(prices, period) ==
    IF Len(prices) <= period + 1 THEN Num(50)
    ELSE LET init == RsiInitial(prices, <<Zero, Zero>>, 1, period)
             avg == RsiSmooth(prices, <<Div(init[1], Num(period)), Div(init[2], Num(period))>>,
                              period + 1, Len(prices) - 1)
         IN  RsiValue(avg[1], avg[2])

calculateRSI(prices, period) ==
    IF Len(prices) < period + 1 THEN Num(50)
    ELSE LET init == RsiInitial(prices, <<Zero, Zero>>, 1, period)
             avgGain == Div(init[1], Num(period))
             avgLoss == Div(init[2], Num(period))
             avg == RsiSmooth(prices, <<avgGain, avgLoss>>, period + 1, Len(prices) - 1)
         IN  RsiValue(avg[1], avg[2])

\* the mutant asks for more than 26 prices
calculateMACDOffByOne(prices) ==
    IF Len(prices) <= 26 THEN Zero
    ELSE LET ema12 == calculateEMA(prices, 12)
             ema26 == calculateEMA(prices, 26)
         IN  Sub(ema12[Len(ema12)], ema26[Len(ema26)])

calculateMACD(prices) ==
    IF Len(prices) < 26 THEN Zero
    ELSE LET ema12 == calculateEMA(prices, 12)
             ema26 == calculateEMA(prices, 26)
             val12 == ema12[Len(ema12)]
             val26 == ema26[Len(ema26)]
         IN  Sub(val12, val26)

DailyReturns(prices) ==
    [i \in 1..(Len(prices) - 1) |-> Div(Sub(prices[i + 1], prices[i]), prices[i])]

RECURSIVE SumSqDevFrom(_, _, _, _, _)
\* sum after `sum = sum + Math.pow(r - mean, 2)` has run on returns[lo..hi]
SumSqDevFrom(sum, returns, mean, lo, hi) ==
    IF hi < lo THEN sum
    ELSE IF lo = hi THEN Add(sum, MathPow2(Sub(returns[lo], mean)))
    ELSE LET mid == (lo + hi) \div 2
             left == SumSqDevFrom(sum, returns, mean, lo, mid)
         IN  Then(left, SumSqDevFrom(left, returns, mean, mid + 1, hi))

\* returns.slice(lo-1, hi).reduce((sum, r) => sum + Math.pow(r - mean, 2), 0)
SumSqDev(returns, mean, lo, hi) == SumSqDevFrom(Zero, returns, mean, lo, hi)

calculateVolatility(prices) ==
    IF Len(prices) < 2 THEN Zero
    ELSE LET returns == DailyReturns(prices)
             mean == Div(SumRange(returns, 1, Len(returns)), Num(Len(returns)))
             variance == Div(SumSqDev(returns, mean, 1, Len(returns)), Num(Len(returns)))
         IN  Then(mean, Mul(Mul(MathSqrt(variance), MathSqrt(Num(252))), Num(100)))

\* ------------------------------------------------------------------------
\* predictPrice
\* ------------------------------------------------------------------------
Null == <<>>

\* the mutant also rejects a series of exactly 50 prices
InsufficientDataOffByOne(prices) == Len(prices) <= 50

InsufficientData(prices) == Len(prices) < 50

\* the mutant subtracts the averages the other way round
TrendStrengthReversed(sma5, sma20) ==
    IF StrictNe(sma20, Zero) THEN Div(Sub(sma20, sma5), sma20) ELSE Zero

TrendStrength(sma5, sma20) ==
    IF StrictNe(sma20, Zero) THEN Div(Sub(sma5, sma20), sma20) ELSE Zero

Price5DaysAgo(prices) == prices[(Len(prices) - 5) + 1]

Momentum(currentPrice, price5DaysAgo) ==
    IF StrictNe(price5DaysAgo, Zero)
    THEN Div(Sub(currentPrice, price5DaysAgo), price5DaysAgo) ELSE Zero

\* the mutant adjusts by 0.2 instead of 0.02
RsiAdjustmentTenfold(rsi) ==
    IF Lt(rsi, Num(30)) THEN Dec(2, -1)
    ELSE IF Gt(rsi, Num(70)) THEN Dec(-2, -1)
    ELSE Zero

\* the mutant lets the boundaries rsi = 30 and rsi = 70 adjust the drift
RsiAdjustmentInclusive(rsi) ==
    IF Le(rsi, Num(30)) THEN Dec(2, -2)
    ELSE IF Ge(rsi, Num(70)) THEN Dec(-2, -2)
    ELSE Zero

RsiAdjustment(rsi) ==
    IF Lt(rsi, Num(30)) THEN Dec(2, -2)
    ELSE IF Gt(rsi, Num(70)) THEN Dec(-2, -2)
    ELSE Zero

PredictedChangeParam(trendStrength, momentum, rsiAdjustment) ==
    Add(Add(Mul(trendStrength, Dec(4, -1)), Mul(momentum, Dec(4, -1))), rsiAdjustment)

\* the mutant lets the boundary rsi = 35 match the first rule
SignalInclusive(rsi, trendStrength, macd, sma5, sma20) ==
    IF Le(rsi, Num(35)) /\ Gt(trendStrength, Zero) THEN "BUY"
    ELSE IF Gt(rsi, Num(65)) /\ Lt(trendStrength, Zero) THEN "SELL"
    ELSE IF Gt(macd, Zero) /\ Gt(sma5, sma20) THEN "BUY"
    ELSE "HOLD"

\* the mutant's second rule compares rsi the wrong way round
SignalSellBelow(rsi, trendStrength, macd, sma5, sma20) ==
    IF Lt(rsi, Num(35)) /\ Gt(trendStrength, Zero) THEN "BUY"
    ELSE IF Lt(rsi, Num(65)) /\ Lt(trendStrength, Zero) THEN "SELL"
    ELSE IF Gt(macd, Zero) /\ Gt(sma5, sma20) THEN "BUY"
    ELSE "HOLD"

Signal(rsi, trendStrength, macd, sma5, sma20) ==
    IF Lt(rsi, Num(35)) /\ Gt(trendStrength, Zero) THEN "BUY"
    ELSE IF Gt(rsi, Num(65)) /\ Lt(trendStrength, Zero) THEN "SELL"
    ELSE IF Gt(macd, Zero) /\ Gt(sma5, sma20) THEN "BUY"
    ELSE "HOLD"

\* the mutant forgets the lower clamp
ConfidenceNoFloor(volatility) ==
    MathMin(Num(95), Sub(Num(100), Mul(volatility, Dec(15, -1))))

\* the mutant swaps Math.max and Math.min
ConfidenceClampSwapped(volatility) ==
    MathMin(Num(50), MathMax(Num(95), Sub(Num(100), Mul(volatility, Dec(15, -1)))))

Confidence(volatility) ==
    MathMax(Num(50), MathMin(Num(95), Sub(Num(100), Mul(volatility, Dec(15, -1)))))

DailyDrift(predictedChangeParam) == Div(predictedChangeParam, Num(7))

DailyVol(volatility) == Div(Div(volatility, Num(100)), MathSqrt(Num(252)))

RECURSIVE ForecastLoop(_, _, _, _, _)
\* <<predictions, tempPrice>> after the loop has run for day = 1..day
ForecastLoop(predictions, tempPrice0, dailyDrift, dailyVol, day) ==
    IF day = 0 THEN <<predictions, tempPrice0>>
    ELSE LET before == ForecastLoop(predictions, tempPrice0, dailyDrift, dailyVol, day - 1)
             tempPrice == Mul(before[2], Add(Num(1), dailyDrift))
             range == Mul(tempPrice, dailyVol)
         IN  <<Append(before[1],
                      [day |-> day,
                       predicted |-> tempPrice,
                       low |-> Sub(tempPrice, Mul(range, Dec(15, -1))),
                       high |-> Add(tempPrice, Mul(range, Dec(15, -1)))]),
               tempPrice>>

\* the mutant stops the loop one day early
ForecastOneDayShort(currentPrice, dailyDrift, dailyVol) ==
    ForecastLoop(<<>>, currentPrice, dailyDrift, dailyVol, 6)[1]

\* the mutant projects the path linearly from the current price instead of
\* compounding day on day
ForecastLinear(currentPrice, dailyDrift, dailyVol) ==
    [day \in 1..7 |->
        LET tempPrice == Mul(currentPrice, Add(Num(1), Mul(Num(day), dailyDrift)))
            range == Mul(tempPrice, dailyVol)
        IN  [day |-> day,
             predicted |-> tempPrice,
             low |-> Sub(tempPrice, Mul(range, Dec(15, -1))),
             high |-> Add(tempPrice, Mul(range, Dec(15, -1)))]]

\* the mutant compounds with 1 - dailyDrift
ForecastSignSlip(currentPrice, dailyDrift, dailyVol) ==
    ForecastLoop(<<>>, currentPrice, Neg(dailyDrift), dailyVol, 7)[1]

\* the mutant puts the band on the wrong sides of the projected price
ForecastBandsSwapped(currentPrice, dailyDrift, dailyVol) ==
    LET predictions == ForecastLoop(<<>>, currentPrice, dailyDrift, dailyVol, 7)[1]
    IN  [d \in 1..7 |-> [day |-> predictions[d].day,
                         predicted |-> predictions[d].predicted,
                         low |-> predictions[d].high,
                         high |-> predictions[d].low]]

\* the predictions array after `for (let day = 1; day <= 7; day++)`
Forecast(currentPrice, dailyDrift, dailyVol) ==
    ForecastLoop(<<>>, currentPrice, dailyDrift, dailyVol, 7)[1]

FinalChange(finalPred, currentPrice) ==
    Mul(Div(Sub(finalPred, currentPrice), currentPrice), Num(100))

\* the mutant calls a zero change bullish
TrendZeroBullish(finalChange) == IF Ge(finalChange, Zero) THEN "bullish" ELSE "bearish"

Trend(finalChange) == IF Gt(finalChange, Zero) THEN "bullish" ELSE "bearish"

\* `dateNow` is the value Date.now() returns during the call.
predictPrice(prices, dateNow) ==
    IF InsufficientData(prices) THEN Null
    ELSE LET currentPrice == prices[Len(prices)]
             sma5Arr == calculateSMA(prices, 5)
             sma20Arr == calculateSMA(prices, 20)
             rsi == calculateRSI(prices, 14)
             macd == calculateMACD(prices)
             volatility == calculateVolatility(prices)
             sma5 == sma5Arr[Len(sma5Arr)]
             sma20 == sma20Arr[Len(sma20Arr)]
             trendStrength == TrendStrength(sma5, sma20)
             price5DaysAgo == Price5DaysAgo(prices)
             momentum == Momentum(currentPrice, price5DaysAgo)
             rsiAdjustment == RsiAdjustment(rsi)
             predictedChangeParam == PredictedChangeParam(trendStrength, momentum, rsiAdjustment)
             signal == Signal(rsi, trendStrength, macd, sma5, sma20)
             confidence == Confidence(volatility)
             dailyDrift == DailyDrift(predictedChangeParam)
             dailyVol == DailyVol(volatility)
             predictions == Forecast(currentPrice, dailyDrift, dailyVol)
             finalPred == predictions[Len(predictions)].predicted
             finalChange == FinalChange(finalPred, currentPrice)
         IN  [symbol |-> "UNKNOWN",
              currentPrice |-> currentPrice,
              predictions |-> predictions,
              predictedChange |-> finalChange,
              confidence |-> confidence,
              trend |-> Trend(finalChange),
              signal |-> signal,
              indicators |-> [rsi |-> rsi,
                              macd |-> macd,
                              volatility |-> volatility,
                              trendStrength |-> trendStrength,
                              sma5 |-> sma5,
                              sma20 |-> sma20,
                              momentum |-> momentum],
              lastUpdated |-> dateNow]

\* ------------------------------------------------------------------------
\* Callers.  The engine is a set of pure functions; the state is the price
\* series a caller holds, the clock, and the last call with what it returned.
\* ------------------------------------------------------------------------
VARIABLES prices, now, ret

\* The Investments page: its React state, the requests it has in flight and
\* its polling interval (introduced below, with the page's handlers).
VARIABLES selectedStock, showPrediction, prediction, rtPrice, loadingStocks,
          captured, interval, inflight, clock, lastCall, fetchedAt, gestures

pageVars == <<selectedStock, showPrediction, prediction, rtPrice, loadingStocks,
              captured, interval, inflight, clock, lastCall, fetchedAt,
              gestures>>

vars == <<prices, now, ret, pageVars>>

\* fetchRealTimePrice has not been called yet
NotCalled == [trigger |-> "none", force |-> FALSE, since |-> 0,
              rtPrice |-> FALSE, requested |-> FALSE]

\* the component's state as useState and useRef initialise it, before the
\* first render has run any effect; the variables are described with the
\* page's handlers
Investments ==
    /\ selectedStock = "RELIANCE"
    /\ showPrediction = FALSE
    /\ prediction = "null"
    /\ rtPrice = "null"
    /\ loadingStocks = {}
    /\ captured = {}
    /\ interval = {}
    /\ inflight = {}
    /\ clock = 0
    /\ lastCall = NotCalled
    /\ fetchedAt = 0
    /\ gestures = 0

MaxExtra == 0
MaxNow == 1

Lengths == {1, 14, 15, 49} \cup 50..(50 + MaxExtra)

Shapes == {"flat", "rise", "fall", "zigzag", "swing", "fallflat", "riseflat"}

\* the i-th price (1-based) of the series of length n and the given shape
ShapePrice(shape, n, i) ==
    CASE shape = "flat" -> Num(100)
      [] shape = "rise" -> Num(100 + i)
      [] shape = "fall" -> Num(200 - i)
      [] shape = "zigzag" -> Num(100 + (i % 2))
      [] shape = "swing" -> Num(100 + 200 * (i % 2))
      [] shape = "fallflat" -> Num(100 + 2 * (IF i < n - 20 THEN n - 20 - i ELSE 0))
      [] shape = "riseflat" -> Num(200 - 2 * (IF i < n - 20 THEN n - 20 - i ELSE 0))

Edits == {"none", "zero", "negative", "up", "down"}

\* how many elements before the last one the edited element lies
EditOffsets == {0, 4, 5, 25}

Edited(price, edit) ==
    CASE edit = "none" -> price
      [] edit = "zero" -> Zero
      [] edit = "negative" -> Num(-1)
      [] edit = "up" -> Add(price, Num(1))
      [] edit = "down" -> Sub(price, Num(1))

Series(shape, n, edit, offset) ==
    [i \in 1..n |-> IF i = n - offset THEN Edited(ShapePrice(shape, n, i), edit)
                    ELSE ShapePrice(shape, n, i)]

NoCall == [fn |-> "none", val |-> Null]

Init ==
    /\ \E shape \in Shapes, n \in Lengths, edit \in Edits, offset \in EditOffsets :
           prices = Series(shape, n, edit, offset)
    /\ now = 0
    /\ ret = NoCall
    /\ Investments

\* a caller runs predictPrice(prices)
PredictPrice ==
    /\ ret' = [fn |-> "predictPrice", val |-> predictPrice(prices, now)]
    /\ UNCHANGED <<prices, now, pageVars>>

\* a caller runs calculateRSI(prices) with the default period
CalculateRSI ==
    /\ ret' = [fn |-> "calculateRSI", val |-> calculateRSI(prices, 14)]
    /\ UNCHANGED <<prices, now, pageVars>>

\* time passes between calls
Tick ==
    /\ now < MaxNow
    /\ now' = now + 1
    /\ UNCHANGED <<prices, ret, pageVars>>

Next == PredictPrice \/ CalculateRSI \/ Tick

Spec == Init /\ [][Next]_vars

\* ------------------------------------------------------------------------
\* The signal classification of predictPrice applied to an indicator
\* snapshot.  trendStrength is derived from the two averages as in
\* predictPrice.
\* ------------------------------------------------------------------------
RsiLevels == {Num(0), Num(29), Num(34), Num(35), Num(36), Num(50),
              Num(64), Num(65), Num(66), Num(71), Num(100)}
MacdLevels == {Num(-1), Zero, Num(1)}
SmaLevels == {<<Num(99), Num(100)>>, <<Num(100), Num(100)>>,
              <<Num(101), Num(100)>>, <<Zero, Zero>>}

InitSignal ==
    /\ prices = <<>>
    /\ now = 0
    /\ ret = NoCall
    /\ Investments

ClassifySignal ==
    \E rsi \in RsiLevels, macd \in MacdLevels, sma \in SmaLevels :
        LET trendStrength == TrendStrength(sma[1], sma[2])
        IN  /\ ret' = [fn |-> "signal",
                       args |-> [rsi |-> rsi, trendStrength |-> trendStrength,
                                 macd |-> macd, sma5 |-> sma[1], sma20 |-> sma[2]],
                       val |-> Signal(rsi, trendStrength, macd, sma[1], sma[2])]
            /\ UNCHANGED <<prices, now, pageVars>>

NextSignal == ClassifySignal

SpecSignal == InitSignal /\ [][NextSignal]_vars

\* ------------------------------------------------------------------------
\* One call of one engine function on a series.  A call of calculateSMA,
\* calculateEMA or calculateRSI with an explicit period records the period.
\* ------------------------------------------------------------------------
CallLengths == {0, 1, 2, 4, 5, 6, 25, 26, 27}

Periods == {1, 5, 26}

\* the scenario series: 60 closes from 100 to 160 and from 200 to 140 in
\* equal steps
ScenarioPrice(shape, i) ==
    CASE shape = "climb" -> Add(Num(100), Div(Num(60 * (i - 1)), Num(59)))
      [] shape = "slide" -> Sub(Num(200), Div(Num(60 * (i - 1)), Num(59)))

Scenario(shape) == [i \in 1..60 |-> ScenarioPrice(shape, i)]

\* n prices growing by the factor 9/7 a day: 7^(n-1), 7^(n-2) * 9, ..., 9^(n-1)
Compound(n) == [i \in 1..n |-> Num(7^(n - i) * 9^(i - 1))]

CompoundLengths == {3, 7}

\* 50 closes of 0.33333333 each
Constant == [i \in 1..50 |-> Dec(33333333, -8)]

InitCall ==
    /\ \/ \E shape \in Shapes, n \in CallLengths, edit \in Edits, offset \in EditOffsets :
              prices = Series(shape, n, edit, offset)
       \/ \E shape \in {"climb", "slide"} : prices = Scenario(shape)
       \/ \E n \in CompoundLengths : prices = Compound(n)
       \/ prices = Constant
    /\ now = 0
    /\ ret = NoCall
    /\ Investments

CalculateSMA ==
    \E period \in Periods :
        /\ ret' = [fn |-> "calculateSMA", period |-> period,
                   val |-> calculateSMA(prices, period)]
        /\ UNCHANGED <<prices, now, pageVars>>

\* the mutant seeds the average with data.shift(), which removes the first
\* element from the caller's array
CalculateEMAShifting ==
    \E period \in Periods :
        /\ ret' = [fn |-> "calculateEMA", period |-> period,
                   val |-> calculateEMA(prices, period)]
        /\ prices' = IF Len(prices) < period THEN prices ELSE Tail(prices)
        /\ UNCHANGED <<now, pageVars>>

CalculateEMA ==
    \E period \in Periods :
        /\ ret' = [fn |-> "calculateEMA", period |-> period,
                   val |-> calculateEMA(prices, period)]
        /\ UNCHANGED <<prices, now, pageVars>>

\* calculateRSI(prices, period) with an explicit period
CalculateRSIPeriod ==
    \E period \in Periods \cup {14} :
        /\ ret' = [fn |-> "calculateRSI", period |-> period,
                   val |-> calculateRSI(prices, period)]
        /\ UNCHANGED <<prices, now, pageVars>>

CalculateMACD ==
    /\ ret' = [fn |-> "calculateMACD", val |-> calculateMACD(prices)]
    /\ UNCHANGED <<prices, now, pageVars>>

CalculateVolatility ==
    /\ ret' = [fn |-> "calculateVolatility", val |-> calculateVolatility(prices)]
    /\ UNCHANGED <<prices, now, pageVars>>

NextCall ==
    /\ ret = NoCall
    /\ \/ CalculateSMA
       \/ CalculateEMA
       \/ CalculateRSIPeriod
       \/ CalculateMACD
       \/ CalculateVolatility
       \/ PredictPrice

SpecCall == InitCall /\ [][NextCall]_vars

\* ------------------------------------------------------------------------
\* The composite drift of predictPrice (steps 2, 4 and 5) applied to an
\* indicator snapshot.
\* ------------------------------------------------------------------------
DriftRsiLevels == {Num(0), Num(29), Num(30), Num(31), Num(50), Num(69), Num(70),
                   Num(71), Num(100)}
MomentumLevels == {Dec(-5, -2), Zero, Dec(5, -2)}

InitDrift ==
    /\ prices = <<>>
    /\ now = 0
    /\ ret = NoCall
    /\ Investments

ComposeDrift ==
    \E rsi \in DriftRsiLevels, momentum \in MomentumLevels, sma \in SmaLevels :
        LET trendStrength == TrendStrength(sma[1], sma[2])
            rsiAdjustment == RsiAdjustment(rsi)
        IN  /\ ret' = [fn |-> "drift",
                       args |-> [rsi |-> rsi, momentum |-> momentum,
                                 sma5 |-> sma[1], sma20 |-> sma[2]],
                       trendStrength |-> trendStrength,
                       rsiAdjustment |-> rsiAdjustment,
                       val |-> PredictedChangeParam(trendStrength, momentum, rsiAdjustment)]
            /\ UNCHANGED <<prices, now, pageVars>>

NextDrift == ComposeDrift

SpecDrift == InitDrift /\ [][NextDrift]_vars

\* ------------------------------------------------------------------------
\* The confidence score of predictPrice (step 7) applied to a volatility.
\* ------------------------------------------------------------------------
\* 0, 1/3, 2/3, ..., 40: the clamp bounds are reached at 10/3 and 100/3
VolatilityLevels == {Div(Num(k), Num(3)) : k \in 0..120}

InitConfidence ==
    /\ prices = <<>>
    /\ now = 0
    /\ ret = NoCall
    /\ Investments

ScoreConfidence ==
    \E volatility \in VolatilityLevels :
        /\ ret' = [fn |-> "confidence", volatility |-> volatility,
                   val |-> Confidence(volatility)]
        /\ UNCHANGED <<prices, now, pageVars>>

NextConfidence == ScoreConfidence

SpecConfidence == InitConfidence /\ [][NextConfidence]_vars

\* ------------------------------------------------------------------------
\* The Investments page.  Its state is the React state the handlers read and
\* write; a state update that changes a dependency of a useCallback re-runs
\* the effect that depends on the callback, within the same step.
\*
\*   selectedStock, showPrediction   as in the component
\*   prediction      the symbol the held PredictionResult was obtained for,
\*                   or "null"
\*   rtPrice         the symbol the held AggregatedPrice was fetched for, or
\*                   "null"; every setRtPrice stores a new object
\*   loadingStocks   as in the component
\*   captured        the loadingStocks that the current fetchRealTimePrice
\*                   callback closed over when it was created
\*   interval        the firing time of the running setInterval timer, as a
\*                   set: empty when there is none
\*   inflight        the fetches awaiting a response, each with the symbol
\*                   its closure captured; equal fetches are held once
\*   clock           seconds since the page was loaded
\*   lastCall        the latest call of fetchRealTimePrice: what triggered
\*                   it, its force argument, the seconds since the previous
\*                   request for the selected stock's price, whether rtPrice
\*                   was set, and whether it issued that request
\*   fetchedAt       Date.now(), in seconds, of the latest request for the
\*                   selected stock's price; 0 before the first
\*   gestures        how many times the user has picked a stock or clicked
\*                   the AI Forecast button
\*
\* chartData, predictionData, isLoading, isRefreshing and the prices of the
\* holdings are written by the handlers but decide none of their branches
\* and are left out; every setHoldings stores a new array.
\* ------------------------------------------------------------------------
\* two of the symbols of INDIAN_STOCKS
Stocks == {"RELIANCE", "TCS"}

\* one of the symbols of INITIAL_HOLDINGS
Holdings == {"RELIANCE"}

\* setInterval(..., 10000), in seconds
PollSeconds == 10

\* now - lastFetchTimeRef.current < 15000, in seconds
ThrottleSeconds == 15

\* useRef<number>(0); no statement of the component assigns .current
lastFetchTimeRef == 0

MaxClock == 10
MaxGestures == 2

\* the numbers of points a chart response carries
ChartPoints == {0, 49, 50}

\* the prices of a chart response of n points
ChartPrices(n) == [i \in 1..n |-> Num(100)]

\* Date.now() in seconds; the page is loaded at 1700000000
DateNow == 1700000000 + clock

Fetch(fn, symbol, await) == [fn |-> fn, symbol |-> symbol, await |-> await]

\* holdings.forEach(fetchPriceForStock) as run by a callback that sees the
\* set `seen` as loadingStocks: the requests it issues
fetchPriceForStock(seen) ==
    {Fetch("fetchPriceForStock", h, "price") : h \in Holdings \ seen}

\* the early return of fetchRealTimePrice
Throttled(force, rt) ==
    ~force /\ DateNow - lastFetchTimeRef < ThrottleSeconds /\ rt # "null"

\* fetchRealTimePrice(force) run by a callback created in a render with the
\* given selectedStock, rtPrice and loadingStocks (seen); loading and pending
\* are loadingStocks and inflight when it is called
fetchRealTimePrice(trigger, force, selected, rt, seen, loading, pending) ==
    LET requested == ~Throttled(force, rt)
    IN  /\ inflight' = pending \cup fetchPriceForStock(seen) \cup
               (IF requested
                THEN {Fetch("fetchRealTimePrice", selected, "price")}
                ELSE {})
        /\ loadingStocks' = loading \cup (Holdings \ seen)
        /\ lastCall' = [trigger |-> trigger, force |-> force,
                        since |-> DateNow - fetchedAt,
                        rtPrice |-> rt # "null", requested |-> requested]
        /\ fetchedAt' = IF requested THEN DateNow ELSE fetchedAt

\* the polling effect: the previous interval is cleared, the new callback is
\* called with force = true and a new interval is set
PollingEffect(trigger, selected, rt, loading, pending) ==
    /\ fetchRealTimePrice(trigger, TRUE, selected, rt, loading, loading, pending)
    /\ captured' = loading
    /\ interval' = {clock + PollSeconds}

\* fetchChartData() as the chart effect calls it: the request it issues
fetchChartData(selected) == Fetch("fetchChartData", selected, "chart")

InitPage ==
    /\ prices = <<>>
    /\ now = 0
    /\ ret = NoCall
    /\ Investments

\* the first render: both effects run
Mount ==
    /\ lastCall = NotCalled
    /\ PollingEffect("mount", selectedStock, rtPrice, loadingStocks,
                     inflight \cup {fetchChartData(selectedStock)})
    /\ UNCHANGED <<selectedStock, showPrediction, prediction, rtPrice, clock,
                   gestures, prices, now, ret>>

\* a stock is picked in the dropdown
SelectStock ==
    /\ lastCall # NotCalled
    /\ gestures < MaxGestures
    /\ gestures' = gestures + 1
    /\ \E s \in Stocks :
        LET pending == IF s # selectedStock \/ showPrediction
                       THEN inflight \cup {fetchChartData(s)}
                       ELSE inflight
        IN  /\ selectedStock' = s
            /\ showPrediction' = FALSE
            /\ IF s # selectedStock
               THEN PollingEffect("select", s, rtPrice, loadingStocks, pending)
               ELSE /\ inflight' = pending
                    /\ UNCHANGED <<loadingStocks, captured, interval,
                                   lastCall, fetchedAt>>
            /\ UNCHANGED <<prediction, rtPrice, clock, prices, now, ret>>

\* the AI Forecast button is clicked
HandlePredictClick ==
    /\ lastCall # NotCalled
    /\ gestures < MaxGestures
    /\ gestures' = gestures + 1
    /\ IF showPrediction
       THEN /\ showPrediction' = FALSE
            /\ inflight' = inflight \cup {fetchChartData(selectedStock)}
       ELSE /\ showPrediction' = TRUE
            /\ inflight' = inflight \cup
                   {Fetch("handlePredictClick", selectedStock, "predict"),
                    fetchChartData(selectedStock)}
    /\ UNCHANGED <<selectedStock, prediction, rtPrice, loadingStocks,
                   captured, interval, clock, lastCall, fetchedAt, prices,
                   now, ret>>

\* the chart request of a fetchChartData call is answered (by the backend or
\* the fallback) with some points, or with none, fails or times out
ChartResponse ==
    \E r \in inflight, data \in BOOLEAN :
        /\ r.fn = "fetchChartData" /\ r.await = "chart"
        /\ inflight' = (inflight \ {r}) \cup
               (IF data
                THEN {Fetch("fetchChartData", r.symbol, "predict")}
                ELSE {})
        /\ UNCHANGED <<selectedStock, showPrediction, prediction, rtPrice,
                       loadingStocks, captured, interval, clock, lastCall,
                       fetchedAt, gestures, prices, now, ret>>

\* the predict request of a fetchChartData call is answered or fails; on a
\* failure the local predictPrice runs on the prices of the chart, which is
\* null exactly on insufficient data
PredictResponse ==
    \E r \in inflight, ok \in BOOLEAN, points \in ChartPoints \ {0} :
        /\ r.fn = "fetchChartData" /\ r.await = "predict"
        /\ inflight' = inflight \ {r}
        /\ prediction' =
               IF ok \/ ~InsufficientData(ChartPrices(points))
               THEN r.symbol
               ELSE prediction
        /\ UNCHANGED <<selectedStock, showPrediction, rtPrice, loadingStocks,
                       captured, interval, clock, lastCall, fetchedAt,
                       gestures, prices, now, ret>>

\* the predict request of a handlePredictClick call is answered or fails
ClickResponse ==
    \E r \in inflight, ok \in BOOLEAN :
        /\ r.fn = "handlePredictClick"
        /\ inflight' = inflight \ {r}
        /\ prediction' = IF ok THEN r.symbol ELSE prediction
        /\ UNCHANGED <<selectedStock, showPrediction, rtPrice, loadingStocks,
                       captured, interval, clock, lastCall, fetchedAt,
                       gestures, prices, now, ret>>

\* a fetchPriceForStock call ends, with a price (setHoldings stores a new
\* array, which re-creates fetchRealTimePrice) or without one
PriceResponse ==
    \E r \in inflight, price \in BOOLEAN :
        /\ r.fn = "fetchPriceForStock"
        /\ IF price
           THEN PollingEffect("response", selectedStock, rtPrice,
                              loadingStocks \ {r.symbol}, inflight \ {r})
           ELSE /\ inflight' = inflight \ {r}
                /\ loadingStocks' = loadingStocks \ {r.symbol}
                /\ UNCHANGED <<captured, interval, lastCall, fetchedAt>>
        /\ UNCHANGED <<selectedStock, showPrediction, prediction, rtPrice,
                       clock, gestures, prices, now, ret>>

\* the request of a fetchRealTimePrice call is answered (setRtPrice stores a
\* new object, which re-creates fetchRealTimePrice) or fails
RealTimePriceResponse ==
    \E r \in inflight, ok \in BOOLEAN :
        /\ r.fn = "fetchRealTimePrice"
        /\ IF ok
           THEN /\ rtPrice' = r.symbol
                /\ PollingEffect("response", selectedStock, r.symbol,
                                 loadingStocks, inflight \ {r})
           ELSE /\ inflight' = inflight \ {r}
                /\ UNCHANGED <<rtPrice, loadingStocks, captured, interval,
                               lastCall, fetchedAt>>
        /\ UNCHANGED <<selectedStock, showPrediction, prediction, clock,
                       gestures, prices, now, ret>>

\* the interval timer fires: fetchRealTimePrice() without force
IntervalFires ==
    /\ clock \in interval
    /\ fetchRealTimePrice("timer", FALSE, selectedStock, rtPrice, captured,
                          loadingStocks, inflight)
    /\ interval' = {clock + PollSeconds}
    /\ UNCHANGED <<selectedStock, showPrediction, prediction, rtPrice,
                   captured, clock, gestures, prices, now, ret>>

\* five seconds pass; a due timer fires first
Advance ==
    /\ lastCall # NotCalled
    /\ clock < MaxClock
    /\ \A t \in interval : clock < t
    /\ clock' = clock + 5
    /\ UNCHANGED <<selectedStock, showPrediction, prediction, rtPrice,
                   loadingStocks, captured, interval, inflight, lastCall,
                   fetchedAt, gestures, prices, now, ret>>

\* {showPrediction && prediction && (...)}: the analysis panel is rendered
PanelVisible == showPrediction /\ prediction # "null"

NextPage ==
    \/ Mount
    \/ SelectStock
    \/ HandlePredictClick
    \/ ChartResponse
    \/ PredictResponse
    \/ ClickResponse
    \/ PriceResponse
    \/ RealTimePriceResponse
    \/ IntervalFires
    \/ Advance

SpecPage == InitPage /\ [][NextPage]_vars

\* ------------------------------------------------------------------------
\* Properties
\* ------------------------------------------------------------------------
Returned == ret.fn = "predictPrice"
Succeeded == ret.fn = "predictPrice" /\ ret.val # Null

IsPositive(a) == IsFinite(a) /\ a.m > 0
AllPositive(s) == \A i \in 1..Len(s) : IsPositive(s[i])

\* every numeric field of a result
NumericFields(r) ==
    {r.currentPrice, r.predictedChange, r.confidence}
    \cup {r.indicators[f] : f \in DOMAIN r.indicators}
    \cup UNION {{r.predictions[d].predicted, r.predictions[d].low, r.predictions[d].high} :
                d \in 1..Len(r.predictions)}

FullyPopulated(r) ==
    /\ \A x \in NumericFields(r) : IsFinite(x)
    /\ Len(r.predictions) = 7
    /\ r.trend \in {"bullish", "bearish"}
    /\ r.signal \in {"BUY", "SELL", "HOLD"}

\* C1: on a series of positive finite prices predictPrice returns null when
\* the series has fewer than 50 elements and a fully populated result when
\* it has 50 or more.
C1_ResultIffFifty ==
    (Returned /\ AllPositive(prices)) =>
        IF Len(prices) < 50 THEN ret.val = Null
        ELSE ret.val # Null /\ FullyPopulated(ret.val)

C1_Witness ==
    Succeeded /\ AllPositive(prices) /\ Len(prices) = 50 /\ FullyPopulated(ret.val)

\* C2: a series of 50 or more elements with a non-positive or non-finite
\* element is rejected (predictPrice returns null).
C2_InvalidSeriesRejected ==
    (Returned /\ Len(prices) >= 50 /\ ~AllPositive(prices)) => ret.val = Null

\* C3: whatever the input series, no numeric field of a returned result is
\* NaN or Infinity.
C3_NoNaNOrInfinity ==
    Succeeded => \A x \in NumericFields(ret.val) : IsFinite(x)

\* C4: two invocations of predictPrice on the same series return results
\* equal in every field (the series never changes, so consecutive returns of
\* predictPrice must be equal).
C4_SameInputSameOutput ==
    [][(ret.fn = "predictPrice" /\ ret'.fn = "predictPrice") => ret'.val = ret.val]_vars

\* C5: on a series of positive prices of any length calculateRSI returns a
\* value in [0, 100].
C5_RsiInRange ==
    (ret.fn = "calculateRSI" /\ AllPositive(prices)) =>
        Ge(ret.val, Num(0)) /\ Le(ret.val, Num(100))

C5_Witness ==
    /\ ret.fn = "calculateRSI" /\ AllPositive(prices) /\ Len(prices) >= 15
    /\ Gt(ret.val, Num(0)) /\ Lt(ret.val, Num(100))

\* x clamped to [lo, hi]
Clamped(x, lo, hi) ==
    IF IsNaN(x) THEN x ELSE IF Lt(x, lo) THEN lo ELSE IF Gt(x, hi) THEN hi ELSE x

\* C6: the confidence of a result is 100 - 1.5 * volatility clamped to
\* [50, 95]; it is never below 50 and never above 95, and lies in [50, 95]
\* on every series of positive prices.
C6_ConfidenceClamped ==
    Succeeded =>
        LET r == ret.val
        IN  /\ r.confidence =
                 Clamped(Sub(Num(100), Mul(Dec(15, -1), r.indicators.volatility)),
                         Num(50), Num(95))
            /\ ~Lt(r.confidence, Num(50))
            /\ ~Gt(r.confidence, Num(95))
            /\ AllPositive(prices) => Ge(r.confidence, Num(50)) /\ Le(r.confidence, Num(95))

C6_Witness ==
    /\ Succeeded /\ AllPositive(prices)
    /\ Gt(ret.val.confidence, Num(50)) /\ Lt(ret.val.confidence, Num(95))

\* C7: a result holds exactly 7 prediction points whose day indices are
\* 1, 2, ..., 7 in order.
C7_SevenDays ==
    Succeeded =>
        /\ Len(ret.val.predictions) = 7
        /\ \A d \in 1..7 : ret.val.predictions[d].day = d

C7_Witness ==
    Succeeded /\ Len(ret.val.predictions) = 7 /\ ret.val.predictions[7].day = 7

\* C8: predictedChange is (predictions[6].predicted - currentPrice) /
\* currentPrice * 100 with currentPrice the last element of the series, and
\* trend is bullish exactly when predictedChange > 0, bearish otherwise.
C8_ChangeAndTrend ==
    Succeeded =>
        LET r == ret.val
            currentPrice == prices[Len(prices)]
        IN  /\ r.predictedChange =
                 Mul(Div(Sub(r.predictions[7].predicted, currentPrice), currentPrice),
                     Num(100))
            /\ r.trend = "bullish" <=> Gt(r.predictedChange, Zero)
            /\ r.trend = "bearish" <=> ~Gt(r.predictedChange, Zero)

C8_Witness ==
    Succeeded /\ ret.val.predictedChange = Zero /\ ret.val.trend = "bearish"

\* the classification rules, first match wins
SignalRule(a) ==
    CASE Lt(a.rsi, Num(35)) /\ Gt(a.trendStrength, Zero) -> "BUY"
      [] ~(Lt(a.rsi, Num(35)) /\ Gt(a.trendStrength, Zero))
         /\ Gt(a.rsi, Num(65)) /\ Lt(a.trendStrength, Zero) -> "SELL"
      [] ~(Lt(a.rsi, Num(35)) /\ Gt(a.trendStrength, Zero))
         /\ ~(Gt(a.rsi, Num(65)) /\ Lt(a.trendStrength, Zero))
         /\ Gt(a.macd, Zero) /\ Gt(a.sma5, a.sma20) -> "BUY"
      [] OTHER -> "HOLD"

\* C9: the signal is the first matching rule among BUY (rsi < 35 and
\* trendStrength > 0), SELL (rsi > 65 and trendStrength < 0), BUY (macd > 0
\* and sma5 > sma20), else HOLD; the boundary values match no rule.
C9_SignalRules ==
    ret.fn = "signal" => ret.val = SignalRule(ret.args)

C9_Witness ==
    /\ ret.fn = "signal"
    /\ ret.args.rsi = Num(35) /\ Gt(ret.args.trendStrength, Zero)
    /\ ret.args.macd = Zero
    /\ ret.val = "HOLD"

\* C10: momentum is (prices[n-1] - prices[n-6]) / prices[n-6], and 0 when
\* prices[n-6] is 0.
C10_MomentumFivePeriods ==
    Succeeded =>
        LET currentPrice == prices[Len(prices)]
            earlier == prices[(Len(prices) - 6) + 1]
        IN  ret.val.indicators.momentum =
                IF earlier = Zero THEN Zero
                ELSE Div(Sub(currentPrice, earlier), earlier)

\* some price is higher / lower than its predecessor
HasRise(s) == \E i \in 1..(Len(s) - 1) : Gt(s[i + 1], s[i])
HasFall(s) == \E i \in 1..(Len(s) - 1) : Lt(s[i + 1], s[i])

\* C11: calculateRSI returns exactly 50 for every series of at most 14
\* elements, whatever the elements; a series of 15 or more elements takes
\* the computed path: 100 without a fall, 0 with falls only, and a value
\* strictly between when the series both rises and falls.
C11_RsiNeutralBelowFifteen ==
    ret.fn = "calculateRSI" =>
        IF Len(prices) <= 14 THEN ret.val = Num(50)
        ELSE IF ~HasFall(prices) THEN ret.val = Num(100)
        ELSE IF ~HasRise(prices) THEN ret.val = Zero
        ELSE Gt(ret.val, Zero) /\ Lt(ret.val, Num(100))

C11_Witness ==
    /\ ret.fn = "calculateRSI" /\ Len(prices) = 14
    /\ HasRise(prices) /\ ~HasFall(prices)
    /\ ret.val = Num(50)

\* C12: for every series of at least 15 elements in which no price is lower
\* than its predecessor (a constant series included) calculateRSI returns
\* exactly 100.
C12_RsiHundredWithoutFall ==
    (ret.fn = "calculateRSI" /\ Len(prices) >= 15 /\ ~HasFall(prices)) =>
        ret.val = Num(100)

C12_Witness ==
    /\ ret.fn = "calculateRSI" /\ Len(prices) >= 15
    /\ ~HasFall(prices) /\ ~HasRise(prices)
    /\ ret.val = Num(100)

Last(s) == s[Len(s)]

\* C13: calculateMACD returns 0 for every series of fewer than 26 elements,
\* and for 26 or more elements (exactly 26 included) the last value of
\* EMA(prices, 12) minus the last value of EMA(prices, 26).
C13_MacdFromTwentySix ==
    ret.fn = "calculateMACD" =>
        IF Len(prices) < 26 THEN ret.val = Zero
        ELSE ret.val = Sub(Last(calculateEMA(prices, 12)), Last(calculateEMA(prices, 26)))

C13_Witness ==
    ret.fn = "calculateMACD" /\ Len(prices) = 26 /\ IsFinite(ret.val) /\ ret.val # Zero

RECURSIVE WindowSum(_, _, _)
\* s[lo] + ... + s[hi], added from the left
WindowSum(s, lo, hi) ==
    IF hi < lo THEN Zero ELSE Add(WindowSum(s, lo, hi - 1), s[hi])

\* C14: calculateSMA(data, period) is empty when data has fewer than period
\* elements; otherwise it has length - period + 1 values, the j-th being the
\* arithmetic mean of the window of period elements that starts at the j-th
\* element.
C14_SmaTrailingMeans ==
    ret.fn = "calculateSMA" =>
        IF Len(prices) < ret.period THEN ret.val = <<>>
        ELSE /\ Len(ret.val) = Len(prices) - ret.period + 1
             /\ \A j \in 1..Len(ret.val) :
                    ret.val[j] =
                        Div(WindowSum(prices, j, j + ret.period - 1), Num(ret.period))

C14_Witness ==
    /\ ret.fn = "calculateSMA" /\ ret.period = 5 /\ Len(prices) = 6
    /\ Len(ret.val) = 2 /\ IsFinite(ret.val[1]) /\ Lt(ret.val[1], ret.val[2])

\* C15: calculateEMA(data, period) is empty when data has fewer than period
\* elements; otherwise it has one value per element, the first being the
\* first raw value and every later one data[i] * k + ema[i-1] * (1 - k)
\* with k = 2 / (period + 1).
C15_EmaRecurrence ==
    ret.fn = "calculateEMA" =>
        IF Len(prices) < ret.period THEN ret.val = <<>>
        ELSE LET k == Div(Num(2), Num(ret.period + 1))
             IN  /\ Len(ret.val) = Len(prices)
                 /\ ret.val[1] = prices[1]
                 /\ \A i \in 2..Len(prices) :
                        ret.val[i] =
                            Add(Mul(prices[i], k), Mul(ret.val[i - 1], Sub(Num(1), k)))

C15_Witness ==
    /\ ret.fn = "calculateEMA" /\ ret.period = 5 /\ Len(prices) = 6
    /\ Len(ret.val) = 6 /\ ret.val[1] = prices[1]
    /\ IsFinite(ret.val[6]) /\ ret.val[6] # prices[6]

\* all daily returns of the series are the same number
EqualReturns(s) ==
    LET returns == DailyReturns(s)
    IN  \A i \in 1..Len(returns) : ~StrictNe(returns[i], returns[1])

\* C16: calculateVolatility returns 0 for a series of fewer than 2 prices, is
\* non-negative for every series of positive prices, and is exactly 0
\* whenever all daily returns of the series are identical.
C16_VolatilityZeroOnEqualReturns ==
    ret.fn = "calculateVolatility" =>
        /\ Len(prices) < 2 => ret.val = Zero
        /\ AllPositive(prices) => Ge(ret.val, Zero)
        /\ (Len(prices) >= 2 /\ EqualReturns(prices)) => ret.val = Zero

\* C17: no engine function changes the price series it is given: after any
\* call the array has the same length and the same elements in the same
\* order as before.
C17_InputUnchanged ==
    [][/\ Len(prices') = Len(prices)
       /\ \A i \in 1..Len(prices) : prices'[i] = prices[i]]_vars

C17_Witness ==
    /\ ret.fn = "calculateEMA" /\ ret.period = 26 /\ Len(prices) = 27
    /\ Len(ret.val) = 27

\* C18: for the 60 closes rising from 100 to 160 in equal steps predictPrice
\* yields trendStrength > 0, momentum > 0, a BUY or HOLD signal, a bullish
\* trend and predictedChange > 0.
C18_SteadyRise ==
    (Succeeded /\ prices = Scenario("climb")) =>
        /\ Gt(ret.val.indicators.trendStrength, Zero)
        /\ Gt(ret.val.indicators.momentum, Zero)
        /\ ret.val.signal \in {"BUY", "HOLD"}
        /\ ret.val.trend = "bullish"
        /\ Gt(ret.val.predictedChange, Zero)

C18_Witness ==
    /\ Succeeded /\ prices = Scenario("climb")
    /\ prices[1] = Num(100) /\ prices[60] = Num(160)
    /\ ret.val.signal = "BUY" /\ ret.val.trend = "bullish"

\* C19: for the 60 closes falling from 200 to 140 in equal steps predictPrice
\* yields trendStrength < 0, an rsi below 50 and a bearish trend.
C19_SteadyFall ==
    (Succeeded /\ prices = Scenario("slide")) =>
        /\ Lt(ret.val.indicators.trendStrength, Zero)
        /\ Lt(ret.val.indicators.rsi, Num(50))
        /\ ret.val.trend = "bearish"

C19_Witness ==
    /\ Succeeded /\ prices = Scenario("slide")
    /\ prices[1] = Num(200) /\ prices[60] = Num(140)
    /\ ret.val.indicators.rsi = Zero /\ ret.val.trend = "bearish"

RECURSIVE WilderSmooth(_, _, _, _, _)
\* <<avgGain, avgLoss>> after avg = (avg * (period - 1) + current) / period
\* has been applied to the deltas lo..hi in order
WilderSmooth(s, period, avg, lo, hi) ==
    IF hi < lo THEN avg
    ELSE IF lo = hi
    THEN LET change == Sub(s[lo + 1], s[lo])
             gain == IF Gt(change, Zero) THEN change ELSE Zero
             loss == IF Lt(change, Zero) THEN Neg(change) ELSE Zero
         IN  <<Div(Add(Mul(avg[1], Num(period - 1)), gain), Num(period)),
               Div(Add(Mul(avg[2], Num(period - 1)), loss), Num(period))>>
    ELSE LET mid == (lo + hi) \div 2
             left == WilderSmooth(s, period, avg, lo, mid)
         IN  Then(left, WilderSmooth(s, period, left, mid + 1, hi))

\* the RSI whose smoothing weights follow the period
WilderRsi(s, period) ==
    LET init == RsiInitial(s, <<Zero, Zero>>, 1, period)
        first == <<Div(init[1], Num(period)), Div(init[2], Num(period))>>
        avg == WilderSmooth(s, period, first, period + 1, Len(s) - 1)
    IN  IF ~StrictNe(avg[2], Zero) THEN Num(100)
        ELSE Sub(Num(100), Div(Num(100), Add(Num(1), Div(avg[1], avg[2]))))

\* C20: for every period p >= 1 and every series longer than p + 1,
\* calculateRSI(prices, p) averages the first p deltas and then smooths every
\* later delta with avg = (avg * (p - 1) + current) / p.
C20_RsiSmoothingFollowsPeriod ==
    (ret.fn = "calculateRSI" /\ Len(prices) > ret.period + 1) =>
        ret.val = WilderRsi(prices, ret.period)

\* C21: the composite drift is 0.4 * trendStrength + 0.4 * momentum +
\* rsiAdjustment, with trendStrength = (sma5 - sma20) / sma20 (0 if sma20 is
\* 0) and rsiAdjustment +0.02 exactly when rsi < 30, -0.02 exactly when
\* rsi > 70 and 0 otherwise (rsi = 30 and rsi = 70 give 0).
C21_CompositeDrift ==
    ret.fn = "drift" =>
        LET a == ret.args
            trendStrength == IF a.sma20 = Zero THEN Zero
                             ELSE Div(Sub(a.sma5, a.sma20), a.sma20)
            rsiAdjustment == CASE Lt(a.rsi, Num(30)) -> Dec(2, -2)
                               [] Gt(a.rsi, Num(70)) -> Dec(-2, -2)
                               [] OTHER -> Zero
        IN  /\ ret.trendStrength = trendStrength
            /\ ret.rsiAdjustment = rsiAdjustment
            /\ ret.val = Add(Add(Mul(Dec(4, -1), trendStrength),
                                 Mul(Dec(4, -1), a.momentum)), rsiAdjustment)

C21_Witness ==
    /\ ret.fn = "drift" /\ ret.args.rsi = Num(70) /\ ret.rsiAdjustment = Zero
    /\ Gt(ret.trendStrength, Zero) /\ Gt(ret.args.momentum, Zero)
    /\ ret.val = Dec(24, -3)

\* the daily drift and the daily volatility fraction a result was built from
DriftOf(r) ==
    LET i == r.indicators
        rsiAdjustment == CASE Lt(i.rsi, Num(30)) -> Dec(2, -2)
                           [] Gt(i.rsi, Num(70)) -> Dec(-2, -2)
                           [] OTHER -> Zero
        compositeDrift == Add(Add(Mul(Dec(4, -1), i.trendStrength),
                                  Mul(Dec(4, -1), i.momentum)), rsiAdjustment)
    IN  Div(compositeDrift, Num(7))

VolFractionOf(r) == Div(Div(r.indicators.volatility, Num(100)), MathSqrt(Num(252)))

\* the predicted price of day d of a result, the current price for d = 0
PredictedOn(r, d) == IF d = 0 THEN r.currentPrice ELSE r.predictions[d].predicted

\* the band half-width of day d: predicted * dailyVolFraction * 1.5
HalfWidthOn(r, d) == Mul(Mul(PredictedOn(r, d), VolFractionOf(r)), Dec(15, -1))

\* C22: the forecast path is compounded day on day: with dailyDrift =
\* compositeDrift / 7 and predicted[0] = currentPrice, predicted[d] =
\* predicted[d-1] * (1 + dailyDrift) for d = 1..7, and low and high lie
\* predicted[d] * dailyVolFraction * 1.5 below and above predicted[d].
C22_CompoundedPath ==
    Succeeded =>
        LET r == ret.val
        IN  /\ r.currentPrice = prices[Len(prices)]
            /\ \A d \in 1..7 :
                   /\ PredictedOn(r, d) = Mul(PredictedOn(r, d - 1), Add(Num(1), DriftOf(r)))
                   /\ r.predictions[d].low = Sub(PredictedOn(r, d), HalfWidthOn(r, d))
                   /\ r.predictions[d].high = Add(PredictedOn(r, d), HalfWidthOn(r, d))

C22_Witness ==
    /\ Succeeded /\ AllPositive(prices)
    /\ Gt(DriftOf(ret.val), Zero) /\ Gt(VolFractionOf(ret.val), Zero)
    /\ Gt(ret.val.predictions[2].predicted, ret.val.predictions[1].predicted)
    /\ Lt(ret.val.predictions[2].low, ret.val.predictions[2].predicted)

\* the band width of day d of a result
BandWidth(r, d) == Sub(r.predictions[d].high, r.predictions[d].low)

\* C23: in every successful forecast the band width (high - low) grows along
\* the path: the width of day d + 1 is at least the width of day d, for
\* d = 1..6.
C23_BandWidthGrows ==
    Succeeded =>
        \A d \in 1..6 : Ge(BandWidth(ret.val, d + 1), BandWidth(ret.val, d))

\* C23 as amended: on a series of positive prices the band width follows the
\* projected price: from one day to the next it grows (or stays) when the
\* daily drift is positive or zero and shrinks (or stays) when the daily
\* drift is negative or zero.
C23_BandWidthFollowsDrift ==
    (Succeeded /\ AllPositive(prices) /\ FullyPopulated(ret.val)) =>
        \A d \in 1..6 :
            /\ Ge(DriftOf(ret.val), Zero) =>
                   Ge(BandWidth(ret.val, d + 1), BandWidth(ret.val, d))
            /\ Le(DriftOf(ret.val), Zero) =>
                   Le(BandWidth(ret.val, d + 1), BandWidth(ret.val, d))

C23_Witness ==
    /\ Succeeded /\ AllPositive(prices) /\ FullyPopulated(ret.val)
    /\ Lt(DriftOf(ret.val), Zero)
    /\ \A d \in 1..6 : Lt(BandWidth(ret.val, d + 1), BandWidth(ret.val, d))

\* C24: higher volatility strictly lowers confidence: of two scores, the one
\* computed for the lower volatility is strictly greater.
C24_ConfidenceStrictlyDecreasing ==
    [][(ret.fn = "confidence" /\ ret'.fn = "confidence"
        /\ Lt(ret.volatility, ret'.volatility)) => Gt(ret.val, ret'.val)]_vars

\* 100 - 1.5 * v lies strictly between the clamp bounds
Unclamped(v) ==
    LET raw == Sub(Num(100), Mul(Dec(15, -1), v))
    IN  Gt(raw, Num(50)) /\ Lt(raw, Num(95))

\* C24 as amended: higher volatility never raises confidence: of two scores,
\* the one computed for the lower volatility is at least the other, and it
\* is strictly greater when neither is clamped and the volatilities differ
\* by 0.01 or more.
C24_ConfidenceNonIncreasing ==
    [][(ret.fn = "confidence" /\ ret'.fn = "confidence"
        /\ Lt(ret.volatility, ret'.volatility)) =>
           /\ Ge(ret.val, ret'.val)
           /\ (/\ Unclamped(ret.volatility) /\ Unclamped(ret'.volatility)
               /\ Ge(Sub(ret'.volatility, ret.volatility), Dec(1, -2))) =>
                  Gt(ret.val, ret'.val)]_vars

C24_Witness ==
    /\ ret.fn = "confidence" /\ Unclamped(ret.volatility)
    /\ Gt(ret.val, Num(50)) /\ Lt(ret.val, Num(95))

\* C25: for every series of positive prices of length >= 50 every forecast
\* point satisfies 0 < low <= predicted <= high.
C25_PositiveInsideBand ==
    (Succeeded /\ AllPositive(prices)) =>
        \A d \in 1..7 :
            LET point == ret.val.predictions[d]
            IN  /\ Gt(point.low, Zero)
                /\ Le(point.low, point.predicted)
                /\ Le(point.predicted, point.high)

\* C25 as amended: for every series of positive prices of length >= 50 (with
\* finite indicators) every forecast point satisfies 0 < predicted and
\* low <= predicted <= high; low is positive exactly when the band
\* half-width predicted * dailyVolFraction * 1.5 is below the predicted
\* price, and zero or negative otherwise.
C25_PositiveInsideBandIfCalm ==
    (Succeeded /\ AllPositive(prices) /\ FullyPopulated(ret.val)) =>
        \A d \in 1..7 :
            LET point == ret.val.predictions[d]
            IN  /\ Gt(point.predicted, Zero)
                /\ Le(point.low, point.predicted)
                /\ Le(point.predicted, point.high)
                /\ Gt(point.low, Zero) <=> Lt(HalfWidthOn(ret.val, d), point.predicted)

C25_Witness ==
    /\ Succeeded /\ AllPositive(prices) /\ FullyPopulated(ret.val)
    /\ \A d \in 1..7 :
           /\ Gt(ret.val.predictions[d].low, Zero)
           /\ Lt(ret.val.predictions[d].low, ret.val.predictions[d].predicted)
           /\ Lt(ret.val.predictions[d].predicted, ret.val.predictions[d].high)

\* C26: for every constant series of positive prices of length >= 50
\* predictPrice reports rsi = 100, trendStrength = 0, momentum = 0, macd = 0,
\* volatility = 0 and confidence = 95, applies the -0.02 drag, and returns
\* signal HOLD with trend bearish and a negative predictedChange.
C26_FlatSeries ==
    (/\ Succeeded /\ AllPositive(prices)
     /\ \A i \in 1..Len(prices) : prices[i] = prices[1]) =>
        LET r == ret.val
        IN  /\ r.indicators.rsi = Num(100)
            /\ r.indicators.trendStrength = Zero
            /\ r.indicators.momentum = Zero
            /\ r.indicators.macd = Zero
            /\ r.indicators.volatility = Zero
            /\ r.confidence = Num(95)
            /\ r.predictions[1].predicted =
                   Mul(r.currentPrice, Add(Num(1), Div(Dec(-2, -2), Num(7))))
            /\ r.signal = "HOLD"
            /\ r.trend = "bearish"
            /\ Lt(r.predictedChange, Zero)

StrictlyDecreasing(s) == \A i \in 1..(Len(s) - 1) : Lt(s[i + 1], s[i])

\* C27: for every strictly decreasing series of positive prices of length
\* >= 50 rsi is 0 and the signal is HOLD: a persistently falling series never
\* produces SELL.
C27_FallingSeriesHolds ==
    (Succeeded /\ AllPositive(prices) /\ StrictlyDecreasing(prices)) =>
        /\ ret.val.indicators.rsi = Zero
        /\ Lt(ret.val.indicators.trendStrength, Zero)
        /\ ret.val.signal = "HOLD"

C27_Witness ==
    /\ Succeeded /\ AllPositive(prices) /\ StrictlyDecreasing(prices)
    /\ Len(prices) = 50
    /\ ret.val.indicators.rsi = Zero /\ ret.val.signal = "HOLD"


\* ------------------------------------------------------------------------
\* C28: whenever the analysis panel is visible (showPrediction is true and
\* prediction is non-null), the prediction shown was obtained for the
\* currently selected stock.
\* ------------------------------------------------------------------------
C28_PanelShowsSelectedStock == PanelVisible => prediction = selectedStock

\* ------------------------------------------------------------------------
\* C29: after the forced fetch on mount or on a change of selected stock, a
\* round of price fetches is started only by the interval timer: every call
\* of fetchRealTimePrice is triggered by the mount, by a selection or by the
\* timer, never by the completion of a price fetch.
\* ------------------------------------------------------------------------
C29_RoundsOnlyFromTimer ==
    lastCall.trigger \in {"none", "mount", "select", "timer"}

\* ------------------------------------------------------------------------
\* C30: a non-forced call of fetchRealTimePrice made less than 15 seconds
\* after the previous request for the selected stock's price, while rtPrice
\* is set, issues no request for the selected stock's price.
\* ------------------------------------------------------------------------
C30_ThrottledWithinFifteenSeconds ==
    (/\ lastCall.trigger # "none"
     /\ ~lastCall.force
     /\ lastCall.since < ThrottleSeconds
     /\ lastCall.rtPrice)
        => ~lastCall.requested

====
